---- MODULE Spec2Model ----
(***************************************************************************)
(* The Google Maps script loader (GoogleMapsLoaderImpl) and the browser    *)
(* objects it works on: the document's script elements, the promises it    *)
(* hands out, window.google and window.__googleMapsCallback__.             *)
(*                                                                         *)
(* Environment contract (spec section 6): an injected script either runs   *)
(* (it populates window.google.maps and then invokes the global callback   *)
(* named in its URL, in one task) or fires its error event, once.  A       *)
(* script element that was removed from the document while it was being    *)
(* fetched still does one of the two.  document.head.appendChild is taken  *)
(* to succeed.                                                             *)
(***************************************************************************)
EXTENDS Integers, Sequences, FiniteSets, TLC

\* ------------------------------------------------------------ bounds
MaxScripts == 3
MaxInstances == 2
BurstCap == 3

\* ------------------------------------------------------------ values
Null == 0

Instances == 1..MaxInstances

\* export const googleMapsLoader = GoogleMapsLoaderImpl.getInstance()
googleMapsLoader == 1


\* LoadOptions.  An absent options argument, an absent field, an empty
\* string and an empty list all take the same branch of buildUrl
\* (options?.x is falsy), so absent is written "" and << >>.
Options(libraries, language, region) ==
  [libraries |-> libraries, language |-> language, region |-> region]

NoOptions == Options(<< >>, "", "")

\* The load calls the callers make: (apiKey, options).
LoadInputs ==
  { <<"k1", NoOptions>>,
    <<"k2", Options(<<"places", "drawing">>, "en", "US")>> }

LibraryNames == {"marker"}

callbackName == "__googleMapsCallback__"

ScriptLoadError == "Failed to load Google Maps script"

NotLoadingError ==
  "Google Maps is not loaded and no load is in progress. Call load() first."

NotLoadedError ==
  "Google Maps API must be loaded before importing libraries. Call load() first."

NativeImportError == "native importLibrary rejected"

\* ------------------------------------------------------------ state
VARIABLES
  instance,        \* GoogleMapsLoaderImpl.instance (static): instance id or Null
  created,         \* how many GoogleMapsLoaderImpl objects were constructed
  urlIn,           \* the arguments of the last buildUrl call
  urlOut,          \* what the last buildUrl call returned
  loadingPromise,  \* per loader instance: promise id or Null
  scriptElement,   \* per loader instance: script id or Null
  scripts,         \* every script element created, in creation order
  promises,        \* the promise of every load cycle, in creation order
  windowGoogle,    \* window.google: [defined, maps]
  windowCallback,  \* window.__googleMapsCallback__: the promise its closure resolves, or Null
  lastOp,          \* the operation or event of the last step
  args,            \* the arguments of the last load call
  ret,             \* what the last call returned
  flag,            \* isLoaded's result; for importLibrary: the native import was called
  burst,           \* the load calls made since the last script event or dispose
  kind,            \* the component under observation: "Map", "Marker" or "AdvancedMarker"
  life,            \* "new" (never rendered), "mounted" or "unmounted"
  props,           \* the props and context values of the last committed render
  renders,         \* how many renders were committed
  mapState,        \* Map: const [map, setMap] = useState(null)
  markerRef,       \* markerRef.current: native marker id or Null
  clickListenerRef,     \* clickListenerRef.current: listener id or Null
  reactRootRef,         \* reactRootRef.current: root id or Null
  contentContainerRef,  \* contentContainerRef.current: root id of its div, or Null
  initCleanup,     \* the init effect's last run returned a cleanup
  clickCleanup,    \* the click effect's last run returned a cleanup
  listenersCleanup,     \* Map: whether a cleanup was returned, and its listeners array
  natives,         \* every native map or marker object constructed
  listeners,       \* every MapsEventListener created by event.addListener
  roots,           \* every React root created by createRoot
  pending,         \* the async init functions, in start order
  peak,            \* per event: the most listeners registered at one moment
  log,             \* the native calls the last step made, in order
  ctxIn,           \* the last useContextValue call: its context and enclosing providers
  ctxOut,          \* what the last useContextValue call returned or threw
  query,           \* the query of APIProvider's useQuery in the query cache
  focused,         \* the window is visible (focusManager.isFocused())
  view             \* what APIProvider rendered last, with the context value it published

loaderVars == <<loadingPromise, scriptElement>>
browserVars == <<scripts, promises, windowGoogle, windowCallback>>
singletonVars == <<instance, created>>
urlVars == <<urlIn, urlOut>>
refVars == <<markerRef, clickListenerRef, reactRootRef, contentContainerRef>>
effectVars == <<initCleanup, clickCleanup, listenersCleanup>>
nativeVars == <<natives, listeners, roots, pending, peak, log>>
reactVars == <<kind, life, props, renders, mapState, refVars, effectVars, nativeVars>>
contextVars == <<ctxIn, ctxOut>>
providerVars == <<query, focused, view>>
restVars == <<singletonVars, urlVars, reactVars, contextVars, providerVars>>
vars == <<instance, created, urlIn, urlOut, loadingPromise, scriptElement, scripts, promises,
          windowGoogle, windowCallback, lastOp, args, ret, flag, burst, reactVars,
          contextVars, providerVars>>

\* ------------------------------------------------------------ buildUrl
RECURSIVE join(_, _)
\* Array.prototype.join: the elements with the separator between them, as
\* a sequence of tokens (a token is a word or one separator character).
join(list, sep) ==
  IF list = << >> THEN << >>
  ELSE IF Len(list) = 1 THEN <<list[1]>>
  ELSE <<list[1], sep>> \o join(Tail(list), sep)

\* The application/x-www-form-urlencoded serializer that
\* URLSearchParams.toString() applies to every name and value: letters,
\* digits and * - . _ are kept, a space becomes +, any other character is
\* percent-encoded.
encodeToken(t) ==
  IF t = "," THEN "%2C"
  ELSE IF t = " " THEN "+"
  ELSE t

RECURSIVE encode(_)
encode(tokens) ==
  IF tokens = << >> THEN ""
  ELSE encodeToken(Head(tokens)) \o encode(Tail(tokens))

RECURSIVE paramsToString(_)
\* URLSearchParams.toString(): name=value pairs joined by &.
paramsToString(params) ==
  IF params = << >> THEN ""
  ELSE encode(<<params[1][1]>>) \o "=" \o encode(params[1][2])
       \o (IF Len(params) > 1 THEN "&" ELSE "")
       \o paramsToString(Tail(params))

\* Mutant: buildUrl that appends region before language.
buildParams_RegionFirst(apiKey, options) ==
  LET p1 == << <<"key", <<apiKey>> >> >>
      p2 == IF Len(options.libraries) > 0
            THEN Append(p1, <<"libraries", join(options.libraries, ",")>>)
            ELSE p1
      p3 == IF options.region # ""
            THEN Append(p2, <<"region", <<options.region>> >>)
            ELSE p2
      p4 == IF options.language # ""
            THEN Append(p3, <<"language", <<options.language>> >>)
            ELSE p3
  IN p4

\* The URLSearchParams buildUrl fills: (name, value) pairs in append order.
buildParams(apiKey, options) ==
  LET p1 == << <<"key", <<apiKey>> >> >>
      p2 == IF Len(options.libraries) > 0
            THEN Append(p1, <<"libraries", join(options.libraries, ",")>>)
            ELSE p1
      p3 == IF options.language # ""
            THEN Append(p2, <<"language", <<options.language>> >>)
            ELSE p2
      p4 == IF options.region # ""
            THEN Append(p3, <<"region", <<options.region>> >>)
            ELSE p3
  IN p4

buildUrl(apiKey, options) ==
  "https://maps.googleapis.com/maps/api/js?"
    \o paramsToString(buildParams(apiKey, options))

\* Mutant: the URL of the first load is reused for every later script.
scriptUrl_FirstCall(apiKey, options) ==
  IF scripts # << >> THEN scripts[1].src
  ELSE buildUrl(apiKey, options) \o "&callback=" \o callbackName

scriptUrl(apiKey, options) ==
  buildUrl(apiKey, options) \o "&callback=" \o callbackName

\* ------------------------------------------------------------ helpers
\* Mutant: a loaded check that only looks at the outer namespace.
isLoaded_OnlyGoogle == windowGoogle.defined

isLoaded == windowGoogle.defined /\ windowGoogle.maps # Null

NoGoogle == [defined |-> FALSE, maps |-> Null]

Pending == [state |-> "pending", handle |-> Null, text |-> ""]
Fulfilled(h, t) == [state |-> "fulfilled", handle |-> h, text |-> t]
Rejected(msg) == [state |-> "rejected", handle |-> Null, text |-> msg]

\* resolve / reject of a promise: the first settlement wins.
Settle(ps, p, outcome) ==
  IF ps[p].state = "pending" THEN [ps EXCEPT ![p] = outcome] ELSE ps

\* document.contains(script)
contains(s) == scripts[s].attached

NoArgs == <<"", NoOptions>>

\* What a call returns.  A promise of a load cycle is returned by its id.
\* Promise.resolve(..), Promise.reject(..) and an async function make a new
\* promise object on every call: id Null, with the outcome it has.
NotFresh == [state |-> "none", handle |-> Null, text |-> ""]
Shared(id) == [id |-> id, fresh |-> NotFresh]
Fresh(outcome) == [id |-> Null, fresh |-> outcome]
Nothing == Shared(Null)

NoBurst == [active |-> FALSE, first |-> Null, calls |-> 0, injected |-> 0, same |-> TRUE]

\* A load call counted in the burst it belongs to.
BurstAfterLoad(p, injectedNow, settledNow) ==
  IF burst.active
  THEN [burst EXCEPT !.calls = IF @ < BurstCap THEN @ + 1 ELSE @,
                     !.injected = @ + injectedNow,
                     !.same = @ /\ p = burst.first]
  ELSE IF settledNow THEN NoBurst
  ELSE [active |-> TRUE, first |-> p, calls |-> 1, injected |-> injectedNow, same |-> TRUE]

\* The props and context values one render of a component sees.  Objects
\* and functions are written as identities (1, 2, ...), Null is absent.
Props(google, map, position, title, content, onClick, onIdle, center, zoom) ==
  [google |-> google, map |-> map, position |-> position, title |-> title,
   content |-> content, onClick |-> onClick, onIdle |-> onIdle,
   center |-> center, zoom |-> zoom]

NoProps == Props(Null, Null, Null, Null, Null, Null, Null, Null, Null)

\* Map's listener effect returned no cleanup / a cleanup over this array.
NoCleanup == [returned |-> FALSE, listeners |-> << >>]
CleanupOf(list) == [returned |-> TRUE, listeners |-> list]

NoPeak == [click |-> 0, idle |-> 0]

\* No buildUrl call made yet.
NoUrl == [params |-> << >>, url |-> ""]

\* ------------------------------------------------------------ Init
\* The module has been evaluated: the exported googleMapsLoader is the one
\* instance constructed so far.
InitLoader ==
  /\ instance = googleMapsLoader
  /\ created = 1
  /\ urlIn = NoArgs
  /\ urlOut = NoUrl
  /\ loadingPromise = [i \in Instances |-> Null]
  /\ scriptElement = [i \in Instances |-> Null]
  /\ scripts = << >>
  /\ promises = << >>
  /\ windowGoogle \in {NoGoogle, [defined |-> TRUE, maps |-> Null]}
  /\ windowCallback = Null
  /\ lastOp = "init"
  /\ args = NoArgs
  /\ ret = Nothing
  /\ flag = FALSE
  /\ burst = NoBurst

\* No component has rendered yet.
InitComponent ==
  /\ life = "new"
  /\ props = NoProps
  /\ renders = 0
  /\ mapState = Null
  /\ markerRef = Null
  /\ clickListenerRef = Null
  /\ reactRootRef = Null
  /\ contentContainerRef = Null
  /\ initCleanup = FALSE
  /\ clickCleanup = FALSE
  /\ listenersCleanup = NoCleanup
  /\ natives = << >>
  /\ listeners = << >>
  /\ roots = << >>
  /\ pending = << >>
  /\ peak = NoPeak
  /\ log = << >>

\* The values of JavaScript's undefined and null where a context value,
\* a default value or a query result is expected.
Undefined == [undefined |-> TRUE]
JsNull == [null |-> TRUE]

\* useContextValue was not called yet.
NoContextCall == [name |-> "", defaultValue |-> Undefined, providers |-> << >>]
NoHookResult == [threw |-> FALSE, value |-> Undefined, message |-> << >>]

\* APIProvider is not mounted; the query cache has no query.
NoQuery ==
  [status |-> "none", fetchStatus |-> "idle", data |-> Null, error |-> "",
   failureCount |-> 0, retryer |-> "none", promise |-> Nothing, key |-> NoArgs]
NoView ==
  [shown |-> "none", message |-> "", google |-> Null, isLoading |-> FALSE, error |-> Null]

InitApp ==
  /\ ctxIn = NoContextCall
  /\ ctxOut = NoHookResult
  /\ query = NoQuery
  /\ focused = TRUE
  /\ view = NoView

Init == InitLoader /\ kind = "Marker" /\ InitComponent /\ InitApp

\* ------------------------------------------------------------ load
\* if (this.isLoaded()) return Promise.resolve(window.google)
LoadWhenLoaded(self, apiKey, options) ==
  /\ isLoaded
  /\ ret' = Fresh(Fulfilled(windowGoogle.maps, ""))
  /\ burst' = BurstAfterLoad(Null, 0, TRUE)
  /\ UNCHANGED <<loaderVars, browserVars>>

\* if (this.loadingPromise) return this.loadingPromise
LoadWhenLoading(self, apiKey, options) ==
  /\ ~isLoaded
  /\ loadingPromise[self] # Null
  /\ ret' = Shared(loadingPromise[self])
  /\ burst' = BurstAfterLoad(loadingPromise[self], 0,
                             promises[loadingPromise[self]].state # "pending")
  /\ UNCHANGED <<loaderVars, browserVars>>

\* addScript(url): a new script element appended to document.head
addScript(url, owner, self) ==
  Append(scripts, [src |-> url, owner |-> owner, loader |-> self,
                   attached |-> TRUE, status |-> "fetching"])

\* Start loading: new promise, global callback, script element, onerror.
StartLoading(self, apiKey, options) ==
  /\ Len(scripts) < MaxScripts
  /\ LET p == Len(promises) + 1
     IN /\ promises' = Append(promises, Pending)
        /\ windowCallback' = p
        /\ scripts' = addScript(scriptUrl(apiKey, options), p, self)
        /\ scriptElement' = [scriptElement EXCEPT ![self] = Len(scripts) + 1]
        /\ loadingPromise' = [loadingPromise EXCEPT ![self] = p]
        /\ ret' = Shared(p)
        /\ burst' = BurstAfterLoad(p, 1, FALSE)
  /\ UNCHANGED windowGoogle

LoadStart(self, apiKey, options) ==
  /\ ~isLoaded
  /\ loadingPromise[self] = Null
  /\ StartLoading(self, apiKey, options)

\* Mutant: load without the in-flight check.
load_NoCoalesce(self, apiKey, options) ==
  /\ \/ LoadWhenLoaded(self, apiKey, options)
     \/ ~isLoaded /\ StartLoading(self, apiKey, options)
  /\ lastOp' = "load"
  /\ args' = <<apiKey, options>>
  /\ flag' = FALSE
  /\ UNCHANGED restVars

\* Mutant: load without the already-loaded check.
load_NoLoadedCheck(self, apiKey, options) ==
  /\ \/ /\ loadingPromise[self] # Null
        /\ ret' = Shared(loadingPromise[self])
        /\ burst' = BurstAfterLoad(loadingPromise[self], 0,
                                   promises[loadingPromise[self]].state # "pending")
        /\ UNCHANGED <<loaderVars, browserVars>>
     \/ /\ loadingPromise[self] = Null
        /\ StartLoading(self, apiKey, options)
  /\ lastOp' = "load"
  /\ args' = <<apiKey, options>>
  /\ flag' = FALSE
  /\ UNCHANGED restVars

load(self, apiKey, options) ==
  /\ \/ LoadWhenLoaded(self, apiKey, options)
     \/ LoadWhenLoading(self, apiKey, options)
     \/ LoadStart(self, apiKey, options)
  /\ lastOp' = "load"
  /\ args' = <<apiKey, options>>
  /\ flag' = FALSE
  /\ UNCHANGED restVars

\* ------------------------------------------------------------ isLoaded
isLoadedCall(self) ==
  /\ lastOp' = "isLoaded"
  /\ flag' = isLoaded
  /\ ret' = Nothing
  /\ args' = NoArgs
  /\ UNCHANGED <<loaderVars, browserVars, burst, restVars>>

\* ------------------------------------------------------------ wait
\* Mutant: wait without the in-flight branch.
wait_NoJoin(self) ==
  /\ ret' = IF isLoaded THEN Fresh(Fulfilled(windowGoogle.maps, ""))
             ELSE Fresh(Rejected(NotLoadingError))
  /\ lastOp' = "wait"
  /\ args' = NoArgs
  /\ flag' = FALSE
  /\ UNCHANGED <<loaderVars, browserVars, burst, restVars>>

\* Mutant: wait that starts a load when none is in progress.
wait_StartsLoad(self) ==
  /\ IF isLoaded
     THEN /\ ret' = Fresh(Fulfilled(windowGoogle.maps, ""))
          /\ UNCHANGED <<loaderVars, browserVars, burst>>
     ELSE IF loadingPromise[self] # Null
     THEN /\ ret' = Shared(loadingPromise[self])
          /\ UNCHANGED <<loaderVars, browserVars, burst>>
     ELSE StartLoading(self, "k1", NoOptions)
  /\ lastOp' = "wait"
  /\ args' = NoArgs
  /\ flag' = FALSE
  /\ UNCHANGED restVars

wait(self) ==
  /\ ret' = IF isLoaded THEN Fresh(Fulfilled(windowGoogle.maps, ""))
             ELSE IF loadingPromise[self] # Null THEN Shared(loadingPromise[self])
             ELSE Fresh(Rejected(NotLoadingError))
  /\ lastOp' = "wait"
  /\ args' = NoArgs
  /\ flag' = FALSE
  /\ UNCHANGED <<loaderVars, browserVars, burst, restVars>>

\* ------------------------------------------------------------ importLibrary
\* Mutant: importLibrary without the loaded check.
importLibrary_NoCheck(self, libraryName) ==
  /\ \E outcome \in {Fulfilled(windowGoogle.maps, libraryName),
                      Rejected(NativeImportError)} :
        ret' = Fresh(outcome)
  /\ flag' = TRUE
  /\ lastOp' = "importLibrary"
  /\ args' = NoArgs
  /\ UNCHANGED <<loaderVars, browserVars, burst, restVars>>

\* The native google.maps.importLibrary settles either way; the async
\* function returns a new promise with that outcome.
importLibrary(self, libraryName) ==
  /\ IF ~isLoaded
     THEN /\ ret' = Fresh(Rejected(NotLoadedError))
          /\ flag' = FALSE
     ELSE /\ \E outcome \in {Fulfilled(windowGoogle.maps, libraryName),
                             Rejected(NativeImportError)} :
               ret' = Fresh(outcome)
          /\ flag' = TRUE
  /\ lastOp' = "importLibrary"
  /\ args' = NoArgs
  /\ UNCHANGED <<loaderVars, browserVars, burst, restVars>>

\* ------------------------------------------------------------ getScript
\* document.querySelector('script[src*="maps.googleapis.com/maps/api/js"]'):
\* the first attached script in document order; every script of the model
\* has such a source.
querySelector ==
  LET found == {s \in 1..Len(scripts) : scripts[s].attached}
  IN IF found = {} THEN Null
     ELSE CHOOSE s \in found : \A t \in found : s <= t

\* Mutant: getScript that returns the script it finds without adopting it.
getScript_NoRemember(self) ==
  /\ IF scriptElement[self] # Null /\ contains(scriptElement[self])
     THEN ret' = Shared(scriptElement[self])
     ELSE IF querySelector # Null
     THEN ret' = Shared(querySelector)
     ELSE ret' = Nothing
  /\ lastOp' = "getScript"
  /\ args' = NoArgs
  /\ flag' = FALSE
  /\ UNCHANGED <<loaderVars, browserVars, burst, restVars>>

getScript(self) ==
  /\ IF scriptElement[self] # Null /\ contains(scriptElement[self])
     THEN /\ ret' = Shared(scriptElement[self])
          /\ UNCHANGED scriptElement
     ELSE IF querySelector # Null
     THEN /\ scriptElement' = [scriptElement EXCEPT ![self] = querySelector]
          /\ ret' = Shared(querySelector)
     ELSE /\ ret' = Nothing
          /\ UNCHANGED scriptElement
  /\ lastOp' = "getScript"
  /\ args' = NoArgs
  /\ flag' = FALSE
  /\ UNCHANGED <<loadingPromise, browserVars, burst, restVars>>

\* ------------------------------------------------------------ dispose
\* Mutant: dispose that keeps the in-flight reference.
dispose_KeepsPending(self) ==
  /\ scripts' = IF scriptElement[self] # Null /\ contains(scriptElement[self])
                THEN [scripts EXCEPT ![scriptElement[self]].attached = FALSE]
                ELSE scripts
  /\ scriptElement' = [scriptElement EXCEPT ![self] = Null]
  /\ windowGoogle' = NoGoogle
  /\ windowCallback' = Null
  /\ lastOp' = "dispose"
  /\ args' = NoArgs
  /\ ret' = Nothing
  /\ flag' = FALSE
  /\ burst' = NoBurst
  /\ UNCHANGED <<loadingPromise, promises, restVars>>

\* Mutant: dispose that removes whichever script getScript would find.
dispose_RemovesFound(self) ==
  /\ scripts' = IF scriptElement[self] # Null /\ contains(scriptElement[self])
                THEN [scripts EXCEPT ![scriptElement[self]].attached = FALSE]
                ELSE IF querySelector # Null
                THEN [scripts EXCEPT ![querySelector].attached = FALSE]
                ELSE scripts
  /\ scriptElement' = [scriptElement EXCEPT ![self] = Null]
  /\ loadingPromise' = [loadingPromise EXCEPT ![self] = Null]
  /\ windowGoogle' = NoGoogle
  /\ windowCallback' = Null
  /\ lastOp' = "dispose"
  /\ args' = NoArgs
  /\ ret' = Nothing
  /\ flag' = FALSE
  /\ burst' = NoBurst
  /\ UNCHANGED <<promises, restVars>>

\* Mutant: dispose that forgets the script element without removing it.
dispose_KeepsScript(self) ==
  /\ scriptElement' = [scriptElement EXCEPT ![self] = Null]
  /\ loadingPromise' = [loadingPromise EXCEPT ![self] = Null]
  /\ windowGoogle' = NoGoogle
  /\ windowCallback' = Null
  /\ lastOp' = "dispose"
  /\ args' = NoArgs
  /\ ret' = Nothing
  /\ flag' = FALSE
  /\ burst' = NoBurst
  /\ UNCHANGED <<scripts, promises, restVars>>

dispose(self) ==
  /\ scripts' = IF scriptElement[self] # Null /\ contains(scriptElement[self])
                THEN [scripts EXCEPT ![scriptElement[self]].attached = FALSE]
                ELSE scripts
  /\ scriptElement' = [scriptElement EXCEPT ![self] = Null]
  /\ loadingPromise' = [loadingPromise EXCEPT ![self] = Null]
  /\ windowGoogle' = NoGoogle
  /\ windowCallback' = Null
  /\ lastOp' = "dispose"
  /\ args' = NoArgs
  /\ ret' = Nothing
  /\ flag' = FALSE
  /\ burst' = NoBurst
  /\ UNCHANGED <<promises, restVars>>

\* ------------------------------------------------------------ script events
\* The script executes: window.google.maps is populated and the script
\* calls window[callbackName] if it is (still) defined; the registered
\* closure deletes itself and resolves its promise with window.google.
\* Mutant: a callback closure that does not delete itself.
ScriptRuns_KeepsCallback(s) ==
  /\ scripts[s].status = "fetching"
  /\ scripts' = [scripts EXCEPT ![s].status = "ran"]
  /\ windowGoogle' = [defined |-> TRUE, maps |-> s]
  /\ IF windowCallback # Null
     THEN promises' = Settle(promises, windowCallback, Fulfilled(s, ""))
     ELSE UNCHANGED promises
  /\ lastOp' = "scriptRun"
  /\ args' = NoArgs
  /\ ret' = Nothing
  /\ flag' = FALSE
  /\ burst' = NoBurst
  /\ UNCHANGED <<loaderVars, windowCallback, restVars>>

ScriptRuns(s) ==
  /\ scripts[s].status = "fetching"
  /\ scripts' = [scripts EXCEPT ![s].status = "ran"]
  /\ windowGoogle' = [defined |-> TRUE, maps |-> s]
  /\ IF windowCallback # Null
     THEN /\ promises' = Settle(promises, windowCallback, Fulfilled(s, ""))
          /\ windowCallback' = Null
     ELSE UNCHANGED <<promises, windowCallback>>
  /\ lastOp' = "scriptRun"
  /\ args' = NoArgs
  /\ ret' = Nothing
  /\ flag' = FALSE
  /\ burst' = NoBurst
  /\ UNCHANGED <<loaderVars, restVars>>

\* Mutant: onerror that resets the state but never rejects.
ScriptErrors_NoReject(s) ==
  /\ scripts[s].status = "fetching"
  /\ scripts' = [scripts EXCEPT ![s].status = "failed"]
  /\ windowCallback' = Null
  /\ loadingPromise' = [loadingPromise EXCEPT ![scripts[s].loader] = Null]
  /\ lastOp' = "scriptError"
  /\ args' = NoArgs
  /\ ret' = Nothing
  /\ flag' = FALSE
  /\ burst' = NoBurst
  /\ UNCHANGED <<promises, scriptElement, windowGoogle, restVars>>

\* Mutant: onerror that rejects but keeps the in-flight reference.
ScriptErrors_KeepsPending(s) ==
  /\ scripts[s].status = "fetching"
  /\ scripts' = [scripts EXCEPT ![s].status = "failed"]
  /\ windowCallback' = Null
  /\ promises' = Settle(promises, scripts[s].owner, Rejected(ScriptLoadError))
  /\ lastOp' = "scriptError"
  /\ args' = NoArgs
  /\ ret' = Nothing
  /\ flag' = FALSE
  /\ burst' = NoBurst
  /\ UNCHANGED <<loaderVars, windowGoogle, restVars>>

\* scriptElement.onerror: delete window[callbackName]; this.loadingPromise
\* = null; reject(new Error(...)) of the promise this script was created for.
ScriptErrors(s) ==
  /\ scripts[s].status = "fetching"
  /\ scripts' = [scripts EXCEPT ![s].status = "failed"]
  /\ windowCallback' = Null
  /\ loadingPromise' = [loadingPromise EXCEPT ![scripts[s].loader] = Null]
  /\ promises' = Settle(promises, scripts[s].owner, Rejected(ScriptLoadError))
  /\ lastOp' = "scriptError"
  /\ args' = NoArgs
  /\ ret' = Nothing
  /\ flag' = FALSE
  /\ burst' = NoBurst
  /\ UNCHANGED <<scriptElement, windowGoogle, restVars>>

\* ------------------------------------------------------------ specification
\* One loader, the exported singleton, and its environment.
Next ==
  \/ \E in \in LoadInputs : load(googleMapsLoader, in[1], in[2])
  \/ isLoadedCall(googleMapsLoader)
  \/ wait(googleMapsLoader)
  \/ \E n \in LibraryNames : importLibrary(googleMapsLoader, n)
  \/ getScript(googleMapsLoader)
  \/ dispose(googleMapsLoader)
  \/ \E s \in 1..Len(scripts) : ScriptRuns(s)
  \/ \E s \in 1..Len(scripts) : ScriptErrors(s)

Spec == Init /\ [][Next]_vars

\* The browser delivers to every script it has begun to fetch, removed
\* from the document or not, either its execution (which calls the global
\* callback) or its error event.
ScriptEvent(s) ==
  /\ s \in 1..Len(scripts)
  /\ (ScriptRuns(s) \/ ScriptErrors(s))

\* The loader with every injected script eventually getting its event.
SpecLive ==
  Init /\ [][Next]_vars /\ \A s \in 1..MaxScripts : WF_vars(ScriptEvent(s))

\* The loader used without dispose: load calls, callback firings and
\* script-error events only.
NextNoDispose ==
  \/ \E in \in LoadInputs : load(googleMapsLoader, in[1], in[2])
  \/ \E s \in 1..Len(scripts) : ScriptRuns(s)
  \/ \E s \in 1..Len(scripts) : ScriptErrors(s)

SpecNoDispose == Init /\ [][NextNoDispose]_vars

\* ------------------------------------------------------------ buildUrl calls
\* The arguments buildUrl is called with: every combination of a key, a
\* libraries list, a language and a region, absent ones included.
UrlKeys == {"k1", "k2", "YOUR_API_KEY"}
UrlLibraries ==
  { << >>, <<"places">>, <<"places", "drawing">>,
    <<"places", "geometry", "marker">> }
UrlLanguages == {"", "en", "vi"}
UrlRegions == {"", "US", "VN"}

UrlInputs ==
  { <<k, Options(ls, lg, rg)>> :
      k \in UrlKeys, ls \in UrlLibraries, lg \in UrlLanguages, rg \in UrlRegions }

CallBuildUrl(self, apiKey, options) ==
  /\ urlIn' = <<apiKey, options>>
  /\ urlOut' = [params |-> buildParams(apiKey, options),
                url |-> buildUrl(apiKey, options)]
  /\ lastOp' = "buildUrl"
  /\ args' = NoArgs
  /\ ret' = Nothing
  /\ flag' = FALSE
  /\ UNCHANGED <<loaderVars, browserVars, burst, singletonVars, reactVars,
                 contextVars, providerVars>>

NextUrl == \E in \in UrlInputs : CallBuildUrl(googleMapsLoader, in[1], in[2])

SpecUrl == Init /\ [][NextUrl]_vars

\* ------------------------------------------------------------ singleton
\* static getInstance(): constructs a loader only when the static field
\* is empty.  The number of loaders constructed is capped at MaxInstances.
getInstance ==
  /\ instance = Null => created < MaxInstances
  /\ IF instance = Null
     THEN /\ created' = created + 1
          /\ instance' = created + 1
     ELSE UNCHANGED <<instance, created>>
  /\ ret' = Shared(instance')
  /\ lastOp' = "getInstance"
  /\ args' = NoArgs
  /\ flag' = FALSE
  /\ UNCHANGED <<loaderVars, browserVars, burst, urlVars, reactVars,
                 contextVars, providerVars>>

\* static resetInstance(): disposes the current loader and empties the
\* static field.
resetInstance ==
  /\ IF instance # Null
     THEN /\ scripts' = IF scriptElement[instance] # Null
                            /\ contains(scriptElement[instance])
                         THEN [scripts EXCEPT ![scriptElement[instance]].attached = FALSE]
                         ELSE scripts
          /\ scriptElement' = [scriptElement EXCEPT ![instance] = Null]
          /\ loadingPromise' = [loadingPromise EXCEPT ![instance] = Null]
          /\ windowGoogle' = NoGoogle
          /\ windowCallback' = Null
          /\ instance' = Null
     ELSE UNCHANGED <<loaderVars, scripts, windowGoogle, windowCallback, instance>>
  /\ lastOp' = "resetInstance"
  /\ args' = NoArgs
  /\ ret' = Nothing
  /\ flag' = FALSE
  /\ burst' = NoBurst
  /\ UNCHANGED <<promises, created, urlVars, reactVars, contextVars, providerVars>>

\* The loaders a caller can hold: the exported googleMapsLoader and every
\* loader getInstance has returned.
Holders == 1..created

NextInstances ==
  \/ getInstance
  \/ resetInstance
  \/ \E self \in Holders : \E in \in LoadInputs : load(self, in[1], in[2])
  \/ \E s \in 1..Len(scripts) : ScriptRuns(s)
  \/ \E s \in 1..Len(scripts) : ScriptErrors(s)

SpecInstances == Init /\ [][NextInstances]_vars

\* ------------------------------------------------------------ addScript throws
\* document.head.appendChild(script) throws inside addScript: the element
\* was created but is not in the document and is never fetched.  The
\* catch block of load runs inside the promise executor, and the
\* assignment this.loadingPromise = new Promise(...) completes after it.
AppendChildError == "appendChild threw"

StartLoadingThrows(self, apiKey, options) ==
  /\ Len(scripts) < MaxScripts
  /\ LET p == Len(promises) + 1
     IN /\ promises' = Append(promises, Rejected(AppendChildError))
        /\ windowCallback' = Null
        /\ scripts' = Append(scripts,
                             [src |-> scriptUrl(apiKey, options), owner |-> p,
                              loader |-> self, attached |-> FALSE,
                              status |-> "created"])
        /\ loadingPromise' = [loadingPromise EXCEPT ![self] = p]
        /\ ret' = Shared(p)
        /\ burst' = BurstAfterLoad(p, 0, TRUE)
  /\ UNCHANGED <<scriptElement, windowGoogle>>

loadThrows(self, apiKey, options) ==
  /\ ~isLoaded
  /\ loadingPromise[self] = Null
  /\ StartLoadingThrows(self, apiKey, options)
  /\ lastOp' = "load"
  /\ args' = <<apiKey, options>>
  /\ flag' = FALSE
  /\ UNCHANGED restVars

NextThrows ==
  \/ \E in \in LoadInputs : load(googleMapsLoader, in[1], in[2])
  \/ \E in \in LoadInputs : loadThrows(googleMapsLoader, in[1], in[2])
  \/ \E s \in 1..Len(scripts) : ScriptRuns(s)
  \/ \E s \in 1..Len(scripts) : ScriptErrors(s)

SpecThrows == Init /\ [][NextThrows]_vars

\* ------------------------------------------------------------ components
\* Map, Marker and AdvancedMarker are function components.  One mounted
\* component is followed from its first render to its unmount.  React
\* runs, after a render is committed, the cleanups of the effects whose
\* dependencies changed, in declaration order, and then the bodies of
\* those effects, in declaration order; on unmount it runs every cleanup
\* in declaration order.  The code after an await runs in a later task,
\* with the variables of the render that started it.  importLibrary
\* resolves, and in call order.
MaxRenders == 2

Kinds == {"Map", "Marker", "AdvancedMarker"}

\* What the refs, the effect closures and the native side hold while the
\* effects of one commit run one after the other.
Cur ==
  [mapState |-> mapState, markerRef |-> markerRef,
   clickListenerRef |-> clickListenerRef, reactRootRef |-> reactRootRef,
   contentContainerRef |-> contentContainerRef,
   initCleanup |-> initCleanup, clickCleanup |-> clickCleanup,
   listenersCleanup |-> listenersCleanup,
   natives |-> natives, listeners |-> listeners, roots |-> roots,
   pending |-> pending, peak |-> peak, log |-> << >>]

Becomes(s) ==
  /\ mapState' = s.mapState
  /\ markerRef' = s.markerRef
  /\ clickListenerRef' = s.clickListenerRef
  /\ reactRootRef' = s.reactRootRef
  /\ contentContainerRef' = s.contentContainerRef
  /\ initCleanup' = s.initCleanup
  /\ clickCleanup' = s.clickCleanup
  /\ listenersCleanup' = s.listenersCleanup
  /\ natives' = s.natives
  /\ listeners' = s.listeners
  /\ roots' = s.roots
  /\ pending' = s.pending
  /\ peak' = s.peak
  /\ log' = s.log

\* A native object: new google.maps.Map / Marker / AdvancedMarkerElement.
\* google is the API handle whose constructor made it; map is the map a
\* marker is on; container is the element a map was
\* constructed on; cause tells whether the init effect that constructed
\* it ran because google or map changed ("handle") or because only other
\* dependencies did ("props").
Native(google, map, position, title, content, container, center, zoom, cause) ==
  [google |-> google, map |-> map, position |-> position, title |-> title, content |-> content,
   container |-> container, center |-> center, zoom |-> zoom, cause |-> cause]

construct(s, native) ==
  [s EXCEPT !.natives = Append(@, native), !.log = Append(@, "construct")]

Registered(ls, event) ==
  {l \in 1..Len(ls) : ls[l].registered /\ ls[l].event = event}

\* google.maps.event.addListener(target, event, handler)
addListener(s, target, event, handler) ==
  LET ls == Append(s.listeners,
                   [target |-> target, event |-> event, handler |-> handler,
                    registered |-> TRUE])
      n == Cardinality(Registered(ls, event))
  IN [s EXCEPT !.listeners = ls,
               !.peak[event] = IF n > @ THEN n ELSE @,
               !.log = Append(@, "addListener")]

\* google.maps.event.removeListener(listener)
removeListener(s, l) ==
  [s EXCEPT !.listeners[l].registered = FALSE,
            !.log = Append(@, "removeListener")]

\* Why an init effect runs: the API handle or the map it mounts on is new
\* in this render, or only other dependencies changed.
Cause(q, p, first) ==
  IF first \/ q.google # p.google \/ q.map # p.map THEN "handle" ELSE "props"

\* The variables of its render that an async init function reads after
\* its await.
Closure(p, cause) ==
  [google |-> p.google, map |-> p.map, position |-> p.position, content |-> p.content,
   center |-> p.center, zoom |-> p.zoom, cause |-> cause]

\* ------------------------------------------------------------ Marker
\* Initialize marker: useEffect(..., [google, map])
Marker_init(s, p, cause) ==
  IF p.google = Null \/ p.map = Null
  THEN [s EXCEPT !.initCleanup = FALSE]
  ELSE LET s1 == construct(s, Native(p.google, p.map, p.position, p.title, Null,
                                     Null, Null, Null, cause))
       IN [s1 EXCEPT !.markerRef = Len(s1.natives), !.initCleanup = TRUE]

Marker_initCleanup(s) ==
  IF s.markerRef # Null
  THEN [s EXCEPT !.natives[s.markerRef].map = Null,
                 !.markerRef = Null,
                 !.log = Append(@, "detach")]
  ELSE s

\* Update position: useEffect(..., [position])
Marker_position(s, p) ==
  IF s.markerRef = Null THEN s
  ELSE [s EXCEPT !.natives[s.markerRef].position = p.position]

\* Update title: useEffect(..., [title])
Marker_title(s, p) ==
  IF s.markerRef = Null THEN s
  ELSE [s EXCEPT !.natives[s.markerRef].title = p.title]

\* Handle click events: useEffect(..., [google, onClick])
Marker_click(s, p) ==
  IF p.google = Null \/ s.markerRef = Null
  THEN [s EXCEPT !.clickCleanup = FALSE]
  ELSE LET s1 == IF s.clickListenerRef # Null
                 THEN [removeListener(s, s.clickListenerRef)
                         EXCEPT !.clickListenerRef = Null]
                 ELSE s
           s2 == IF p.onClick # Null
                 THEN LET a == addListener(s1, s1.markerRef, "click", p.onClick)
                      IN [a EXCEPT !.clickListenerRef = Len(a.listeners)]
                 ELSE s1
       IN [s2 EXCEPT !.clickCleanup = TRUE]

Marker_clickCleanup(s) ==
  IF s.clickListenerRef # Null
  THEN [removeListener(s, s.clickListenerRef) EXCEPT !.clickListenerRef = Null]
  ELSE s

\* The effects of one committed render of Marker: q are the props of the
\* render before (first: there was none), p the props of this one.
Marker_commit(s, q, p, first) ==
  LET initRuns == first \/ q.google # p.google \/ q.map # p.map
      positionRuns == first \/ q.position # p.position
      titleRuns == first \/ q.title # p.title
      clickRuns == first \/ q.google # p.google \/ q.onClick # p.onClick
      c1 == IF initRuns /\ s.initCleanup THEN Marker_initCleanup(s) ELSE s
      c2 == IF clickRuns /\ c1.clickCleanup THEN Marker_clickCleanup(c1) ELSE c1
      e1 == IF initRuns THEN Marker_init(c2, p, Cause(q, p, first)) ELSE c2
      e2 == IF positionRuns THEN Marker_position(e1, p) ELSE e1
      e3 == IF titleRuns THEN Marker_title(e2, p) ELSE e2
      e4 == IF clickRuns THEN Marker_click(e3, p) ELSE e3
  IN e4

Marker_unmount(s) ==
  LET c1 == IF s.initCleanup THEN Marker_initCleanup(s) ELSE s
      c2 == IF c1.clickCleanup THEN Marker_clickCleanup(c1) ELSE c1
  IN [c2 EXCEPT !.initCleanup = FALSE, !.clickCleanup = FALSE]

\* ------------------------------------------------------------ AdvancedMarker
\* Initialize marker: useEffect(..., [google, map]); initMarker() is
\* started and the cleanup is returned at once.
AdvancedMarker_init(s, p, cause) ==
  IF p.google = Null \/ p.map = Null
  THEN [s EXCEPT !.initCleanup = FALSE]
  ELSE [s EXCEPT !.pending = Append(@, Closure(p, cause)),
                 !.initCleanup = TRUE]

\* initMarker after its await, with the closure c of the render that
\* started it.
AdvancedMarker_initMarker(s, c) ==
  LET s1 == IF c.content # Null
            THEN LET r == Len(s.roots) + 1
                 IN [s EXCEPT !.roots = Append(@, [mounted |-> TRUE,
                                                   content |-> c.content]),
                              !.contentContainerRef = r,
                              !.reactRootRef = r]
            ELSE s
      s2 == construct(s1, Native(c.google, c.map, c.position, Null,
                                 s1.contentContainerRef,
                                 Null, Null, Null, c.cause))
  IN [s2 EXCEPT !.markerRef = Len(s2.natives)]

AdvancedMarker_initCleanup(s) ==
  LET s1 == IF s.reactRootRef # Null
            THEN [s EXCEPT !.roots[s.reactRootRef].mounted = FALSE,
                           !.reactRootRef = Null,
                           !.log = Append(@, "releaseRoot")]
            ELSE s
      s2 == IF s1.markerRef # Null
            THEN [s1 EXCEPT !.natives[s1.markerRef].map = Null,
                            !.markerRef = Null,
                            !.log = Append(@, "detach")]
            ELSE s1
  IN [s2 EXCEPT !.contentContainerRef = Null]

\* Update position: useEffect(..., [position])
AdvancedMarker_position(s, p) ==
  IF s.markerRef = Null THEN s
  ELSE [s EXCEPT !.natives[s.markerRef].position = p.position]

\* Update content: useEffect(..., [content])
AdvancedMarker_content(s, p) ==
  IF s.reactRootRef = Null \/ s.contentContainerRef = Null THEN s
  ELSE [s EXCEPT !.roots[s.reactRootRef].content = p.content]

\* Handle click events: useEffect(..., [google, onClick])
AdvancedMarker_click(s, p) ==
  IF p.google = Null \/ s.markerRef = Null
  THEN [s EXCEPT !.clickCleanup = FALSE]
  ELSE LET s1 == IF s.clickListenerRef # Null
                 THEN [removeListener(s, s.clickListenerRef)
                         EXCEPT !.clickListenerRef = Null]
                 ELSE s
           s2 == IF p.onClick # Null
                 THEN LET a == addListener(s1, s1.markerRef, "click", p.onClick)
                      IN [a EXCEPT !.clickListenerRef = Len(a.listeners)]
                 ELSE s1
       IN [s2 EXCEPT !.clickCleanup = TRUE]

AdvancedMarker_clickCleanup(s) ==
  IF s.clickListenerRef # Null
  THEN [removeListener(s, s.clickListenerRef) EXCEPT !.clickListenerRef = Null]
  ELSE s

AdvancedMarker_commit(s, q, p, first) ==
  LET initRuns == first \/ q.google # p.google \/ q.map # p.map
      positionRuns == first \/ q.position # p.position
      contentRuns == first \/ q.content # p.content
      clickRuns == first \/ q.google # p.google \/ q.onClick # p.onClick
      c1 == IF initRuns /\ s.initCleanup THEN AdvancedMarker_initCleanup(s) ELSE s
      c2 == IF clickRuns /\ c1.clickCleanup
            THEN AdvancedMarker_clickCleanup(c1) ELSE c1
      e1 == IF initRuns THEN AdvancedMarker_init(c2, p, Cause(q, p, first)) ELSE c2
      e2 == IF positionRuns THEN AdvancedMarker_position(e1, p) ELSE e1
      e3 == IF contentRuns THEN AdvancedMarker_content(e2, p) ELSE e2
      e4 == IF clickRuns THEN AdvancedMarker_click(e3, p) ELSE e3
  IN e4

AdvancedMarker_unmount(s) ==
  LET c1 == IF s.initCleanup THEN AdvancedMarker_initCleanup(s) ELSE s
      c2 == IF c1.clickCleanup THEN AdvancedMarker_clickCleanup(c1) ELSE c1
  IN [c2 EXCEPT !.initCleanup = FALSE, !.clickCleanup = FALSE]

\* ------------------------------------------------------------ Map
\* Initialize map: useEffect(..., [google, map, center, zoom, mapId]);
\* the container ref is set whenever effects of a mounted Map run.
Map_init(s, p, cause) ==
  IF p.google = Null \/ s.mapState # Null THEN s
  ELSE [s EXCEPT !.pending = Append(@, Closure(p, cause))]

\* Sync center and zoom: useEffect(..., [map, center, zoom])
Map_sync(s, p) ==
  IF s.mapState = Null THEN s
  ELSE [s EXCEPT !.natives[s.mapState].center = p.center,
                 !.natives[s.mapState].zoom = p.zoom]

\* Event listeners: useEffect(..., [map, onClick, onIdle, google])
Map_listeners(s, p) ==
  IF s.mapState = Null \/ p.google = Null
  THEN [s EXCEPT !.listenersCleanup = NoCleanup]
  ELSE LET s1 == IF p.onClick # Null
                 THEN LET a == addListener(s, s.mapState, "click", p.onClick)
                      IN [a EXCEPT !.listenersCleanup = CleanupOf(<<Len(a.listeners)>>)]
                 ELSE [s EXCEPT !.listenersCleanup = CleanupOf(<< >>)]
           s2 == IF p.onIdle # Null
                 THEN LET a == addListener(s1, s1.mapState, "idle", p.onIdle)
                      IN [a EXCEPT !.listenersCleanup.listeners =
                                     Append(@, Len(a.listeners))]
                 ELSE s1
       IN s2

RECURSIVE removeListeners(_, _)
\* listeners.forEach(listener => google.maps.event.removeListener(listener))
removeListeners(s, list) ==
  IF list = << >> THEN s
  ELSE removeListeners(removeListener(s, Head(list)), Tail(list))

\* Mutant: a cleanup that forgets the listeners without removing them.
Map_listenersCleanup_Keeps(s) ==
  [s EXCEPT !.listenersCleanup = NoCleanup]

Map_listenersCleanup(s) ==
  [removeListeners(s, s.listenersCleanup.listeners)
     EXCEPT !.listenersCleanup = NoCleanup]

\* The effects of one committed render of Map; mapChanged: the map state
\* of this render differs from the one of the render before.
Map_commit(s, q, p, first, mapChanged) ==
  LET initRuns == \/ first \/ mapChanged \/ q.google # p.google
                  \/ q.center # p.center \/ q.zoom # p.zoom
      syncRuns == first \/ mapChanged \/ q.center # p.center \/ q.zoom # p.zoom
      listenersRun == \/ first \/ mapChanged \/ q.google # p.google
                      \/ q.onClick # p.onClick \/ q.onIdle # p.onIdle
      c1 == IF listenersRun /\ s.listenersCleanup.returned
            THEN Map_listenersCleanup(s) ELSE s
      e1 == IF initRuns THEN Map_init(c1, p, Cause(q, p, first)) ELSE c1
      e2 == IF syncRuns THEN Map_sync(e1, p) ELSE e1
      e3 == IF listenersRun THEN Map_listeners(e2, p) ELSE e2
  IN e3

\* initMap after its await: the map is constructed on containerRef.current
\* (null once the Map is unmounted) and setMap re-renders a mounted Map
\* with the new state.
Map_initMap(s, c, isMounted, p) ==
  LET s1 == construct(s, Native(c.google, Null, Null, Null, Null,
                                IF isMounted THEN 1 ELSE Null,
                                c.center, c.zoom, c.cause))
  IN IF isMounted
     THEN Map_commit([s1 EXCEPT !.mapState = Len(s1.natives)], p, p, FALSE, TRUE)
     ELSE s1

Map_unmount(s) ==
  IF s.listenersCleanup.returned THEN Map_listenersCleanup(s) ELSE s

\* ------------------------------------------------------------ renders
\* The props and context values a render can see.
Handles == {Null, 1}
MapHandles == {Null, 1, 2}
Positions == {1, 2}
Titles == {1, 2}
Contents == {Null, 1, 2}
ClickHandlers == {Null, 1, 2}
IdleHandlers == {Null, 1}
Centers == {1, 2}
Zooms == {1, 2}

PropsOf(k) ==
  IF k = "Marker"
  THEN { Props(g, m, x, ti, Null, oc, Null, Null, Null) :
           g \in Handles, m \in MapHandles, x \in Positions, ti \in Titles,
           oc \in ClickHandlers }
  ELSE IF k = "AdvancedMarker"
  THEN { Props(g, m, x, Null, ct, oc, Null, Null, Null) :
           g \in Handles, m \in MapHandles, x \in Positions, ct \in Contents,
           oc \in ClickHandlers }
  ELSE { Props(g, Null, Null, Null, Null, oc, oi, ce, z) :
           g \in Handles, oc \in ClickHandlers, oi \in IdleHandlers,
           ce \in Centers, z \in Zooms }

commit(s, q, p, first) ==
  IF kind = "Marker" THEN Marker_commit(s, q, p, first)
  ELSE IF kind = "AdvancedMarker" THEN AdvancedMarker_commit(s, q, p, first)
  ELSE Map_commit(s, q, p, first, FALSE)

\* The first render of the component and its effects.
Mount(p) ==
  /\ life = "new"
  /\ life' = "mounted"
  /\ props' = p
  /\ renders' = 1
  /\ Becomes(commit(Cur, props, p, TRUE))
  /\ lastOp' = "mount"
  /\ UNCHANGED kind

\* A later render, with whatever props and context values, and its effects.
Render(p) ==
  /\ life = "mounted"
  /\ renders < MaxRenders
  /\ props' = p
  /\ renders' = renders + 1
  /\ Becomes(commit(Cur, props, p, FALSE))
  /\ lastOp' = "render"
  /\ UNCHANGED <<kind, life>>

Unmount ==
  /\ life = "mounted"
  /\ life' = "unmounted"
  /\ Becomes(IF kind = "Marker" THEN Marker_unmount(Cur)
             ELSE IF kind = "AdvancedMarker" THEN AdvancedMarker_unmount(Cur)
             ELSE Map_unmount(Cur))
  /\ lastOp' = "unmount"
  /\ UNCHANGED <<kind, props, renders>>

\* The oldest pending importLibrary promise resolves and the async init
\* function that awaits it goes on.
ImportResolves ==
  /\ pending # << >>
  /\ LET c == Head(pending)
         s == [Cur EXCEPT !.pending = Tail(pending)]
     IN Becomes(IF kind = "AdvancedMarker" THEN AdvancedMarker_initMarker(s, c)
                ELSE Map_initMap(s, c, life = "mounted", props))
  /\ lastOp' = "importResolved"
  /\ UNCHANGED <<kind, life, props, renders>>

loaderIdle ==
  UNCHANGED <<loaderVars, browserVars, singletonVars, urlVars, args, ret, flag, burst,
              contextVars, providerVars>>

InitReact ==
  /\ InitLoader
  /\ windowGoogle = NoGoogle
  /\ kind \in Kinds
  /\ InitComponent
  /\ InitApp

NextReact ==
  \/ (\E p \in PropsOf(kind) : Mount(p)) /\ loaderIdle
  \/ (\E p \in PropsOf(kind) : Render(p)) /\ loaderIdle
  \/ Unmount /\ loaderIdle
  \/ ImportResolves /\ loaderIdle

SpecReact == InitReact /\ [][NextReact]_vars

\* ------------------------------------------------------------ createContext
\* How many providers of one context may enclose the consumer.
MaxDepth == 2

\* createContext(rootComponentName, defaultValue): the React context is
\* created with the same default value.
createContext(rootComponentName, defaultValue) ==
  [name |-> rootComponentName, defaultValue |-> defaultValue]

\* createContext('GoogleMapsAPI', {google: null, isLoading: true, error: null})
GoogleMapsAPIContext ==
  createContext("GoogleMapsAPI", [google |-> Null, isLoading |-> TRUE, error |-> Null])

\* createContext('Map', {map: null})
MapContext == createContext("Map", [map |-> Null])

\* Contexts created with every kind of default: none, null, an object.
WidgetContexts ==
  { createContext("Widget", d) : d \in {Undefined, JsNull, [value |-> 1]} }

Contexts == {GoogleMapsAPIContext, MapContext} \cup WidgetContexts

\* Provider: value = useMemo(() => props, Object.values(props)), the
\* props without children; always an object.
ProviderValues(context) ==
  IF context.name = "GoogleMapsAPI"
  THEN { [google |-> g, isLoading |-> l, error |-> e] :
           g \in {Null, 1}, l \in BOOLEAN, e \in {Null, 1} }
  ELSE IF context.name = "Map" THEN { [map |-> m] : m \in {Null, 1, 2} }
  ELSE { [value |-> v] : v \in {1, 2} }

\* The providers of the context around the consumer, outermost first.
ProviderStacks(context) ==
  UNION { [1..n -> ProviderValues(context)] : n \in 0..MaxDepth }

\* The backtick character, which a string of this module cannot hold.
Backtick == "[backtick]"

\* `useContext must be used within \`${rootComponentName}Provider\`.`,
\* as the sequence of its pieces.
MustBeUsedWithin(rootComponentName) ==
  <<"useContext must be used within ", Backtick>>
    \o <<rootComponentName \o "Provider">> \o <<Backtick, ".">>

\* React's useContext: the value of the nearest enclosing provider, or
\* the default the context was created with.
useReactContext(context, providers) ==
  IF providers = << >> THEN context.defaultValue
  ELSE providers[Len(providers)]

\* Mutant: a hook that throws whenever no provider encloses the consumer.
useContextValue_ThrowsOutside(context, providers) ==
  IF providers # << >>
  THEN [threw |-> FALSE, value |-> providers[Len(providers)], message |-> << >>]
  ELSE [threw |-> TRUE, value |-> Undefined,
        message |-> MustBeUsedWithin(context.name)]

useContextValue(context, providers) ==
  LET value == useReactContext(context, providers)
  IN IF value # Undefined
     THEN [threw |-> FALSE, value |-> value, message |-> << >>]
     ELSE IF context.defaultValue # Undefined
     THEN [threw |-> FALSE, value |-> context.defaultValue, message |-> << >>]
     ELSE [threw |-> TRUE, value |-> Undefined,
           message |-> MustBeUsedWithin(context.name)]

\* A component calls the hook of a context inside some providers of it.
CallUseContextValue(context, providers) ==
  /\ ctxIn' = [name |-> context.name, defaultValue |-> context.defaultValue,
               providers |-> providers]
  /\ ctxOut' = useContextValue(context, providers)
  /\ lastOp' = "useContextValue"
  /\ args' = NoArgs
  /\ ret' = Nothing
  /\ flag' = FALSE
  /\ UNCHANGED <<loaderVars, browserVars, burst, singletonVars, urlVars, reactVars,
                 providerVars>>

NextContext ==
  \E context \in Contexts : \E providers \in ProviderStacks(context) :
     CallUseContextValue(context, providers)

SpecContext == Init /\ [][NextContext]_vars

\* ------------------------------------------------------------ APIProvider
\* retry: 1
retry == 1

\* What a promise the loader returned has settled to, if it has.
Settlement(r) == IF r.id # Null THEN promises[r.id] ELSE r.fresh

\* queryFn: () => googleMapsLoader.load(apiKey, loadOptions)
queryFn(apiKey, loadOptions) ==
  \/ LoadWhenLoaded(googleMapsLoader, apiKey, loadOptions)
  \/ LoadWhenLoading(googleMapsLoader, apiKey, loadOptions)
  \/ LoadStart(googleMapsLoader, apiKey, loadOptions)

\* What APIProvider returns for a query state: useQuery's isLoading is
\* "the first fetch is in flight" (fetching and still pending), its error
\* and data are the query's; the spinner, the alert with error.message,
\* or the children inside GoogleMapsAPIProvider with google ?? null,
\* isLoading false and error null.
APIProvider(q) ==
  IF q.fetchStatus = "fetching" /\ q.status = "pending"
  THEN [shown |-> "spinner", message |-> "",
        google |-> Null, isLoading |-> FALSE, error |-> Null]
  ELSE IF q.error # ""
  THEN [shown |-> "alert", message |-> q.error,
        google |-> Null, isLoading |-> FALSE, error |-> Null]
  ELSE [shown |-> "children", message |-> "",
        google |-> q.data, isLoading |-> FALSE, error |-> Null]

\* The query function's promise has settled and the query has not taken
\* notice yet: its reaction is a microtask, which runs before any other
\* event.
SettlementDue ==
  /\ query.retryer = "awaiting"
  /\ Settlement(query.promise).state # "pending"

\* The provider's bookkeeping of one step.
ProviderStep(op, key) ==
  /\ lastOp' = op
  /\ args' = key
  /\ flag' = FALSE
  /\ view' = APIProvider(query')
  /\ UNCHANGED <<singletonVars, urlVars, reactVars, contextVars>>

\* APIProvider mounts: useQuery creates the query and the observer starts
\* the first fetch, which calls the query function.
MountProvider(apiKey, loadOptions) ==
  /\ view.shown = "none"
  /\ queryFn(apiKey, loadOptions)
  /\ query' = [status |-> "pending", fetchStatus |-> "fetching", data |-> Null,
               error |-> "", failureCount |-> 0, retryer |-> "awaiting",
               promise |-> ret', key |-> <<apiKey, loadOptions>>]
  /\ UNCHANGED focused
  /\ ProviderStep("mountProvider", <<apiKey, loadOptions>>)

\* The promise of the query function settles: success stores the data; a
\* failure is retried while fewer than `retry` failures were counted, and
\* otherwise puts the query in the error state.
QuerySettles ==
  /\ SettlementDue
  /\ LET outcome == Settlement(query.promise)
     IN query' =
          IF outcome.state = "fulfilled"
          THEN [query EXCEPT !.status = "success", !.fetchStatus = "idle",
                             !.data = outcome.handle, !.error = "",
                             !.failureCount = 0, !.retryer = "none"]
          ELSE IF query.failureCount < retry
          THEN [query EXCEPT !.failureCount = @ + 1, !.retryer = "sleeping"]
          ELSE [query EXCEPT !.status = "error", !.fetchStatus = "idle",
                             !.error = outcome.text,
                             !.failureCount = @ + 1, !.retryer = "none"]
  /\ ret' = Nothing
  /\ UNCHANGED <<loaderVars, browserVars, burst, focused>>
  /\ ProviderStep("querySettles", NoArgs)

\* The retry delay is over: the retryer calls the query function again
\* when it can continue, and pauses the query otherwise.
RetryTimer ==
  /\ ~SettlementDue
  /\ query.retryer = "sleeping"
  /\ IF focused
     THEN /\ queryFn(query.key[1], query.key[2])
          /\ query' = [query EXCEPT !.retryer = "awaiting", !.promise = ret']
     ELSE /\ query' = [query EXCEPT !.fetchStatus = "paused", !.retryer = "paused"]
          /\ ret' = Nothing
          /\ UNCHANGED <<loaderVars, browserVars, burst>>
  /\ UNCHANGED focused
  /\ ProviderStep("retryTimer", NoArgs)

\* The window is hidden.
FocusLost ==
  /\ ~SettlementDue
  /\ view.shown # "none"
  /\ focused
  /\ focused' = FALSE
  /\ ret' = Nothing
  /\ UNCHANGED <<loaderVars, browserVars, burst, query>>
  /\ ProviderStep("focusLost", NoArgs)

\* The window is visible again and nothing is to be done for the query.
FocusOnly ==
  /\ ret' = Nothing
  /\ UNCHANGED <<loaderVars, browserVars, burst, query>>

\* The window is visible again: a paused retry continues; a query in the
\* error state, which has no data and is stale, is fetched again when
\* the query client refetches on window focus, and left alone when the
\* client's default options turn that off.
FocusGained ==
  /\ ~SettlementDue
  /\ ~focused
  /\ focused' = TRUE
  /\ IF query.retryer = "paused"
     THEN /\ queryFn(query.key[1], query.key[2])
          /\ query' = [query EXCEPT !.fetchStatus = "fetching",
                                    !.retryer = "awaiting", !.promise = ret']
     ELSE IF query.status = "error"
     THEN \/ /\ queryFn(query.key[1], query.key[2])
             /\ query' = [query EXCEPT !.status = "pending",
                                       !.fetchStatus = "fetching",
                                       !.error = "", !.failureCount = 0,
                                       !.retryer = "awaiting", !.promise = ret']
          \/ FocusOnly
     ELSE FocusOnly
  /\ ProviderStep("focusGained", NoArgs)

NextProvider ==
  \/ \E in \in LoadInputs : MountProvider(in[1], in[2])
  \/ QuerySettles
  \/ RetryTimer
  \/ FocusLost
  \/ FocusGained
  \/ ~SettlementDue /\ \E s \in 1..Len(scripts) : ScriptRuns(s)
  \/ ~SettlementDue /\ \E s \in 1..Len(scripts) : ScriptErrors(s)

SpecProvider == Init /\ [][NextProvider]_vars

\* ------------------------------------------------------------ claims
\* The loader the callers use, and what a returned promise settles to.
L == googleMapsLoader
Outcome(r) == IF r.id # Null THEN promises[r.id] ELSE r.fresh

\* The scripts whose event (run or error) happens in this step.
Ran(s) == scripts[s].status = "fetching" /\ scripts'[s].status = "ran"
Failed(s) == scripts[s].status = "fetching" /\ scripts'[s].status = "failed"

\* C1: the load calls made while no script event and no dispose has
\* happened since the first of them all returned the first call's promise,
\* which is still the pending in-flight one, and injected exactly one
\* script; when a script then runs, that one promise is resolved with the
\* global API handle.
C1_CoalescedLoads ==
  [][ /\ burst'.active =>
           /\ burst'.same
           /\ burst'.injected = 1
           /\ loadingPromise'[L] = burst'.first
           /\ promises'[burst'.first] = Pending
      /\ (burst.active /\ lastOp' = "scriptRun") =>
           promises'[burst.first] = Fulfilled(windowGoogle'.maps, "") ]_vars

C1_Witness ==
  /\ burst.active
  /\ burst.calls >= 3
  /\ lastOp = "load"
  /\ scripts[burst.first].src # scriptUrl(args[1], args[2])

\* C2: a load or wait call made while a load is in flight returns the
\* in-flight promise itself; a settled promise never changes its outcome;
\* the callback firing resolves the promise it was registered for with the
\* global handle and the error event of a script rejects the promise of
\* its load with the script-load error.
C2_SameOutcome ==
  [][ /\ (lastOp' \in {"load", "wait"} /\ ~isLoaded /\ loadingPromise[L] # Null) =>
           /\ ret' = Shared(loadingPromise[L])
           /\ UNCHANGED <<loadingPromise, promises>>
      /\ \A p \in 1..Len(promises) :
           promises[p].state # "pending" => promises'[p] = promises[p]
      /\ (lastOp' = "scriptRun" /\ windowCallback # Null) =>
           promises'[windowCallback] = Fulfilled(windowGoogle'.maps, "")
      /\ \A s \in 1..Len(scripts) :
           (Failed(s) /\ promises[scripts[s].owner].state = "pending") =>
             promises'[scripts[s].owner] = Rejected(ScriptLoadError) ]_vars

C2_Witness ==
  /\ lastOp = "wait"
  /\ ~isLoaded
  /\ loadingPromise[L] # Null
  /\ ret = Shared(loadingPromise[L])
  /\ burst.calls >= 2

\* C3: a load call made while isLoaded() is true resolves with the global
\* handle and changes nothing: no script, no callback, no loader state.
C3_LoadWhenLoaded ==
  [][ (lastOp' = "load" /\ isLoaded) =>
        /\ Outcome(ret)' = Fulfilled(windowGoogle.maps, "")
        /\ UNCHANGED <<loaderVars, browserVars>> ]_vars

C3_Witness ==
  /\ lastOp = "load"
  /\ isLoaded
  /\ Outcome(ret) = Fulfilled(windowGoogle.maps, "")
  /\ scripts[windowGoogle.maps].src # scriptUrl(args[1], args[2])

\* C4: the error event of the in-flight load's script rejects the pending
\* promise with the script-load error, clears the in-flight reference and
\* deletes the callback, leaving the loader unloaded; a load call made in
\* the unloaded state after a failure injects a new script and returns a
\* new pending promise, distinct from every earlier one.
C4_ErrorThenRetry ==
  [][ /\ \A s \in 1..Len(scripts) :
           ( /\ Failed(s)
             /\ loadingPromise[L] = scripts[s].owner
             /\ promises[scripts[s].owner] = Pending ) =>
             /\ promises'[scripts[s].owner] = Rejected(ScriptLoadError)
             /\ loadingPromise'[L] = Null
             /\ windowCallback' = Null
             /\ ~isLoaded'
      /\ ( /\ lastOp' = "load"
           /\ ~isLoaded
           /\ loadingPromise[L] = Null
           /\ \E s \in 1..Len(scripts) : scripts[s].status = "failed" ) =>
           /\ Len(scripts') = Len(scripts) + 1
           /\ scripts'[Len(scripts')].attached
           /\ scripts'[Len(scripts')].status = "fetching"
           /\ scripts'[Len(scripts')].src = scriptUrl(args'[1], args'[2])
           /\ ret' = Shared(Len(promises) + 1)
           /\ promises' = Append(promises, Pending)
           /\ loadingPromise'[L] = ret'.id
           /\ windowCallback' = ret'.id ]_vars

C4_Witness ==
  /\ lastOp = "load"
  /\ ret.id # Null
  /\ promises[ret.id] = Pending
  /\ \E s \in 1..Len(scripts) :
       /\ scripts[s].status = "failed"
       /\ promises[scripts[s].owner] = Rejected(ScriptLoadError)
       /\ scripts[s].owner < ret.id

\* C5: while the callback is registered, and while the in-flight promise
\* is pending, isLoaded() is false; the step in which the callback fires
\* makes it true; it stays true until dispose, and every load call made
\* meanwhile resolves without injecting a script.
C5_LoadedAfterCallback ==
  [][ /\ windowCallback' # Null => ~isLoaded'
      /\ (loadingPromise'[L] # Null /\ promises'[loadingPromise'[L]] = Pending) =>
           ~isLoaded'
      /\ (windowCallback # Null /\ lastOp' = "scriptRun") => isLoaded'
      /\ (isLoaded /\ lastOp' # "dispose") => isLoaded'
      /\ (isLoaded /\ lastOp' = "load") =>
           /\ scripts' = scripts
           /\ Outcome(ret)'.state = "fulfilled" ]_vars

C5_Witness ==
  /\ lastOp = "load"
  /\ isLoaded
  /\ Len(scripts) = 1
  /\ promises[1] = Fulfilled(1, "")
  /\ ret = Fresh(Fulfilled(1, ""))

\* The mapping-API script elements attached to the document.
Attached == {s \in 1..Len(scripts) : scripts[s].attached}

\* C6 as stated: at most one mapping-API script element is attached.
C6_AtMostOneScript == Cardinality(Attached) <= 1

\* C6 amended: at most one attached mapping-API script element has not
\* failed to load (an element whose error event fired stays attached, so
\* the retry adds a second element next to it).
C6_AtMostOneLiveScript ==
  Cardinality({s \in Attached : scripts[s].status # "failed"}) <= 1

C6_Witness ==
  \E s, u \in Attached :
    /\ scripts[s].status = "failed"
    /\ scripts[u].status = "ran"
    /\ isLoaded

\* The loader state of the spec's state machine.
LoaderState ==
  IF isLoaded THEN "Loaded"
  ELSE IF loadingPromise[L] # Null THEN "Loading"
  ELSE "Unloaded"

Transition(from, to, op) ==
  LoaderState = from /\ LoaderState' = to /\ lastOp' = op

\* C7 as stated: the loader state changes only by load (Unloaded to
\* Loading), the callback firing (Loading to Loaded), a script error
\* (Loading to Unloaded) and dispose (Loaded to Unloaded).
C7_FourTransitions ==
  [][ LoaderState' # LoaderState =>
        \/ Transition("Unloaded", "Loading", "load")
        \/ Transition("Loading", "Loaded", "scriptRun") /\ windowCallback # Null
        \/ Transition("Loading", "Unloaded", "scriptError")
        \/ Transition("Loaded", "Unloaded", "dispose") ]_vars

\* C7 amended: the four transitions, and also Loading to Unloaded on
\* dispose and Unloaded to Loaded when a script of a load that was
\* abandoned (by dispose or by another script's error event) runs with no
\* callback registered; a load call made in Loaded leaves the state Loaded.
C7_Transitions ==
  [][ /\ LoaderState' # LoaderState =>
           \/ Transition("Unloaded", "Loading", "load")
           \/ Transition("Loading", "Loaded", "scriptRun") /\ windowCallback # Null
           \/ Transition("Loading", "Unloaded", "scriptError")
           \/ Transition("Loaded", "Unloaded", "dispose")
           \/ Transition("Loading", "Unloaded", "dispose")
           \/ Transition("Unloaded", "Loaded", "scriptRun") /\ windowCallback = Null
      /\ (lastOp' = "load" /\ LoaderState = "Loaded") => LoaderState' = "Loaded" ]_vars

C7_Witness ==
  /\ lastOp = "dispose"
  /\ LoaderState = "Unloaded"
  /\ \E s \in 1..Len(scripts) : scripts[s].status = "fetching" /\ ~scripts[s].attached
  /\ \E p \in 1..Len(promises) : promises[p] = Pending

\* C8: wait() resolves with the global handle when isLoaded() is true,
\* otherwise returns the in-flight promise when there is one, otherwise
\* rejects with the not-loaded-and-no-load-in-progress error.
C8_WaitResult ==
  [][ lastOp' = "wait" =>
        /\ isLoaded => /\ ret'.id = Null
                       /\ ret'.fresh = Fulfilled(windowGoogle.maps, "")
        /\ (~isLoaded /\ loadingPromise[L] # Null) =>
             /\ ret'.id = loadingPromise[L]
             /\ ret'.fresh = NotFresh
        /\ (~isLoaded /\ loadingPromise[L] = Null) =>
             /\ ret'.id = Null
             /\ ret'.fresh = Rejected(NotLoadingError) ]_vars

C8_Witness ==
  /\ lastOp = "wait"
  /\ ret = Fresh(Rejected(NotLoadingError))
  /\ \E s \in 1..Len(scripts) :
       scripts[s].status = "failed" /\ promises[scripts[s].owner].state = "rejected"

\* C9: a wait() call injects no script, registers no callback and leaves
\* the in-flight reference, the remembered script, the promises and the
\* global namespace as they were, whether it resolves or rejects.
C9_WaitChangesNothing ==
  [][ lastOp' = "wait" =>
        /\ scripts' = scripts
        /\ windowCallback' = windowCallback
        /\ loadingPromise' = loadingPromise
        /\ scriptElement' = scriptElement
        /\ promises' = promises
        /\ windowGoogle' = windowGoogle ]_vars

C9_Witness ==
  /\ lastOp = "wait"
  /\ ret.fresh.state = "rejected"
  /\ scripts = << >>
  /\ windowCallback = Null

\* C10: importLibrary called while isLoaded() is false rejects with the
\* must-be-loaded error, does not call the native import, injects no
\* script and leaves the loader, the document and the globals unchanged.
C10_ImportBeforeLoad ==
  [][ (lastOp' = "importLibrary" /\ ~isLoaded) =>
        /\ ret' = Fresh(Rejected(NotLoadedError))
        /\ flag' = FALSE
        /\ UNCHANGED <<loaderVars, browserVars>> ]_vars

C10_Witness ==
  /\ lastOp = "importLibrary"
  /\ ~isLoaded
  /\ loadingPromise[L] # Null
  /\ promises[loadingPromise[L]] = Pending
  /\ ret = Fresh(Rejected(NotLoadedError))
  /\ ~flag

\* C11: after a dispose() call isLoaded() is false, the script the loader
\* remembered and the script the last load injected are detached, the
\* remembered script and the in-flight reference are absent, and neither
\* the global API namespace nor a global callback remains.
C11_AfterDispose ==
  [][ lastOp' = "dispose" =>
        /\ ~isLoaded'
        /\ scriptElement[L] # Null => ~scripts'[scriptElement[L]].attached
        /\ scripts # << >> => ~scripts'[Len(scripts)].attached
        /\ scriptElement'[L] = Null
        /\ loadingPromise'[L] = Null
        /\ windowGoogle' = NoGoogle
        /\ windowCallback' = Null ]_vars

C11_Witness ==
  /\ lastOp = "dispose"
  /\ \E s \in 1..Len(scripts) : scripts[s].status = "ran" /\ ~scripts[s].attached
  /\ \E p \in 1..Len(promises) : promises[p].state = "fulfilled"

\* C12 as stated: a dispose() call that directly follows a dispose() call
\* changes nothing, and a dispose() call made when load never injected a
\* script changes nothing.
C12_DisposeNoOpBeforeLoad ==
  [][ /\ (lastOp = "dispose" /\ lastOp' = "dispose") =>
           UNCHANGED <<loaderVars, browserVars, singletonVars>>
      /\ (lastOp' = "dispose" /\ scripts = << >>) =>
           UNCHANGED <<loaderVars, browserVars, singletonVars>> ]_vars

\* C12 amended: a dispose() call that directly follows a dispose() call
\* changes nothing, and a dispose() call made when load never injected a
\* script and no global google object exists changes nothing; a dispose()
\* call always returns normally.
C12_DisposeIdempotent ==
  [][ /\ (lastOp = "dispose" /\ lastOp' = "dispose") =>
           UNCHANGED <<loaderVars, browserVars, singletonVars>>
      /\ (lastOp' = "dispose" /\ scripts = << >> /\ windowGoogle = NoGoogle) =>
           UNCHANGED <<loaderVars, browserVars, singletonVars>>
      /\ lastOp' = "dispose" => ret' = Nothing ]_vars

C12_Witness ==
  /\ lastOp = "dispose"
  /\ \E s \in 1..Len(scripts) : scripts[s].attached /\ scripts[s].status = "failed"
  /\ \E s \in 1..Len(scripts) : ~scripts[s].attached

\* C13: a load call made in the state dispose leaves (nothing loaded,
\* nothing in flight) injects exactly one new script, whose URL is
\* buildUrl of this call's arguments followed by the callback parameter,
\* and returns a new pending promise that no earlier call returned.
C13_LoadAfterDispose ==
  [][ /\ lastOp' = "dispose" => LoaderState' = "Unloaded"
      /\ (lastOp' = "load" /\ LoaderState = "Unloaded") =>
           /\ Len(scripts') = Len(scripts) + 1
           /\ \A s \in 1..Len(scripts) : scripts'[s] = scripts[s]
           /\ scripts'[Len(scripts')].attached
           /\ scripts'[Len(scripts')].src =
                buildUrl(args'[1], args'[2]) \o "&callback=" \o callbackName
           /\ ret'.id = Len(promises) + 1
           /\ promises' = Append(promises, Pending) ]_vars

C13_Witness ==
  /\ lastOp = "load"
  /\ Len(scripts) >= 2
  /\ ~scripts[1].attached
  /\ promises[1] = Pending
  /\ ret.id = Len(promises)
  /\ scripts[ret.id].src # scripts[1].src
  /\ scripts[ret.id].src = scriptUrl(args[1], args[2])

\* C14: when the registered global callback is invoked it resolves the
\* in-flight promise with the global API handle and deletes itself; with
\* no callback registered a script run resolves nothing, and a settled
\* promise is never settled again.
C14_OneShotCallback ==
  [][ /\ windowCallback' # Null => loadingPromise'[L] = windowCallback'
      /\ (lastOp' = "scriptRun" /\ windowCallback # Null) =>
           /\ promises'[windowCallback] = Fulfilled(windowGoogle'.maps, "")
           /\ windowCallback' = Null
      /\ (lastOp' = "scriptRun" /\ windowCallback = Null) =>
           /\ promises' = promises
           /\ windowCallback' = Null
           /\ loadingPromise' = loadingPromise ]_vars

C14_Witness ==
  /\ lastOp = "scriptRun"
  /\ windowCallback = Null
  /\ \E s, u \in 1..Len(scripts) :
       /\ s # u
       /\ scripts[s].status = "ran"
       /\ scripts[u].status = "ran"
       /\ scripts[s].attached /\ scripts[u].attached

\* C15: a script run resolves only the promise of the load cycle that
\* injected the script: no promise owned by another cycle changes when
\* the script runs.
C15_OwnCycleOnly ==
  [][ \A s \in 1..Len(scripts) :
        Ran(s) => \A p \in 1..Len(promises) :
                    p # scripts[s].owner => promises'[p] = promises[p] ]_vars

\* C18: getScript returns the remembered script when it is attached;
\* otherwise the first attached mapping-API script, which becomes the
\* remembered one; otherwise absent with the state unchanged. Nothing else
\* changes in any of the three cases.
C18_GetScript ==
  [][ lastOp' = "getScript" =>
        LET remembered == scriptElement[L]
            inDocument == {s \in 1..Len(scripts) : scripts[s].attached}
            live == remembered # Null /\ remembered \in inDocument
            first == CHOOSE s \in inDocument : \A u \in inDocument : s <= u
        IN /\ live => ret'.id = remembered /\ scriptElement' = scriptElement
           /\ (~live /\ inDocument # {}) =>
                 ret'.id = first /\ scriptElement'[L] = first
           /\ (~live /\ inDocument = {}) =>
                 ret' = Nothing /\ scriptElement' = scriptElement
           /\ UNCHANGED <<loadingPromise, browserVars>> ]_vars

C18_Witness ==
  /\ lastOp = "getScript"
  /\ ret.id # Null
  /\ scriptElement[L] = ret.id
  /\ scripts[ret.id].status = "failed"
  /\ \E s \in 1..Len(scripts) : s > ret.id /\ ~scripts[s].attached

\* C19: isLoaded() returns true exactly when window.google and
\* window.google.maps both exist, and the call changes neither the
\* loader's references nor the document nor the global state.
C19_IsLoadedPure ==
  [][ lastOp' = "isLoaded" =>
        /\ flag' = (windowGoogle.defined /\ windowGoogle.maps # Null)
        /\ UNCHANGED <<loaderVars, browserVars, singletonVars>> ]_vars

C19_Witness ==
  /\ lastOp = "isLoaded"
  /\ ~flag
  /\ windowGoogle.defined

UrlBase == "https://maps.googleapis.com/maps/api/js?"

\* C16: buildUrl(key, {libraries: ['places','drawing'], language: 'en',
\* region: 'US'}) is the base URL followed by
\* key=<key>&libraries=places,drawing&language=en&region=US, and
\* buildUrl(key) without options is the base URL followed by key=<key>.
C16_ExampleUrls ==
  lastOp = "buildUrl" =>
    /\ urlIn[2] = Options(<<"places", "drawing">>, "en", "US") =>
         urlOut.url = UrlBase \o "key=" \o urlIn[1]
                        \o "&libraries=places,drawing&language=en&region=US"
    /\ urlIn[2] = NoOptions => urlOut.url = UrlBase \o "key=" \o urlIn[1]

\* C17: the query string buildUrl returns is the serialization of the
\* parameters key (always), libraries (exactly when the list is not
\* empty), language (exactly when given) and region (exactly when given),
\* in this order, and it is a function of the arguments.
C17_ParamsPresentInOrder ==
  lastOp = "buildUrl" =>
    LET options == urlIn[2]
        Present(n) == \/ n = "key"
                      \/ n = "libraries" /\ options.libraries # << >>
                      \/ n = "language" /\ options.language # ""
                      \/ n = "region" /\ options.region # ""
        names == [i \in 1..Len(urlOut.params) |-> urlOut.params[i][1]]
    IN /\ names = SelectSeq(<<"key", "libraries", "language", "region">>, Present)
       /\ urlOut.url = UrlBase \o paramsToString(urlOut.params)
       /\ urlOut.params[1][2] = <<urlIn[1]>>

C17_Witness ==
  /\ lastOp = "buildUrl"
  /\ urlIn[2].libraries = << >>
  /\ urlIn[2].language = "vi"
  /\ urlIn[2].region = "US"
  /\ urlOut.url = UrlBase \o "key=" \o urlIn[1] \o "&language=vi&region=US"

\* C20: every result of getInstance() is the exported googleMapsLoader,
\* and at most one loader holds an in-flight load.
C20_OneInstance ==
  /\ lastOp = "getInstance" => ret.id = googleMapsLoader
  /\ Cardinality({i \in Instances : loadingPromise[i] # Null}) <= 1

\* ------------------------------------------------------------ component claims
Attachments == [i \in 1..Len(natives) |-> natives[i].map]
Unsettled == pending # << >>

\* What a native marker shows: the content its React root last rendered.
Displayed(m) ==
  IF natives[m].content # Null /\ roots[natives[m].content].mounted
  THEN roots[natives[m].content].content
  ELSE Null

\* C21: a native object is constructed only while the component is
\* mounted with an API handle, a Map on its mounted container and a
\* marker on the map the component currently has.
C21_ConstructedOnLiveMount ==
  [][ Len(natives') > Len(natives) =>
        LET n == natives'[Len(natives')]
        IN /\ life' = "mounted"
           /\ n.google # Null
           /\ kind = "Map" => n.container # Null
           /\ kind # "Map" => n.map # Null /\ n.map = props'.map ]_vars

\* C22: once a Marker or AdvancedMarker is unmounted and no import is
\* pending, no native marker it created is on a map, none of its click
\* listeners is registered and no React root it created is mounted.
C22_NothingLeftAfterUnmount ==
  (kind # "Map" /\ life = "unmounted" /\ ~Unsettled) =>
    /\ \A i \in 1..Len(natives) : natives[i].map = Null
    /\ \A l \in 1..Len(listeners) : ~listeners[l].registered
    /\ \A r \in 1..Len(roots) : ~roots[r].mounted

TeardownRank(call) ==
  IF call = "removeListener" THEN 1
  ELSE IF call = "detach" THEN 2
  ELSE 3

\* C23: in the unmount of a Marker or AdvancedMarker the click listener is
\* removed before the marker is detached, and the marker is detached
\* before the React root is released.
C23_TeardownOrder ==
  [][ (lastOp' = "unmount" /\ kind # "Map") =>
        \A i, j \in 1..Len(log') :
          i < j => TeardownRank(log'[i]) <= TeardownRank(log'[j]) ]_vars

C25_ConstructedOncePerMount ==
  [][ /\ \A i \in 1..Len(natives') : natives'[i].cause = "handle"
      /\ (lastOp' = "render" /\ props'.google = props.google
            /\ props'.map = props.map) =>
           /\ Len(natives') = Len(natives)
           /\ Attachments' = Attachments ]_vars

\* C26: at most one native map is ever constructed by one mounted Map.
C26_OneNativeMap == kind = "Map" => Len(natives) <= 1

\* C27: a mounted Marker or AdvancedMarker that has a native marker and
\* an onClick prop, with no import pending, has a registered click
\* listener for that onClick on that native marker.
C27_ClickListenerPresent ==
  (kind # "Map" /\ life = "mounted" /\ ~Unsettled
     /\ markerRef # Null /\ props.onClick # Null) =>
    \E l \in Registered(listeners, "click") :
      listeners[l].target = markerRef /\ listeners[l].handler = props.onClick

\* C28: the native marker of a mounted Marker or AdvancedMarker, with no
\* import pending, is at the position of the last render.
C28_PositionIsLatest ==
  (kind # "Map" /\ life = "mounted" /\ ~Unsettled /\ markerRef # Null) =>
    natives[markerRef].position = props.position

\* C29: the native marker of a mounted AdvancedMarker, with no import
\* pending, displays the content of the last render.
C29_ContentIsLatest ==
  (kind = "AdvancedMarker" /\ life = "mounted" /\ ~Unsettled
     /\ markerRef # Null) =>
    Displayed(markerRef) = props.content

\* The load call of this step caught an error thrown by addScript.
Threw ==
  /\ lastOp' = "load"
  /\ Len(scripts') > Len(scripts)
  /\ scripts'[Len(scripts')].status = "created"

\* C30: when addScript throws inside load, the returned promise is
\* rejected with the thrown error, the global callback is deleted and the
\* loader remembers no in-flight load when load returns.
C30_ThrowResetsInFlight ==
  [][ Threw =>
        /\ ret'.id # Null
        /\ promises'[ret'.id] = Rejected(AppendChildError)
        /\ windowCallback' = Null
        /\ loadingPromise'[L] = Null ]_vars

\* C32: an error event of a script affects only the load cycle that
\* injected it: when the failing script belongs to an earlier cycle than
\* the one in flight, the in-flight reference, the callback registered by
\* the later cycle and every promise but the script's own stay unchanged.
C32_ErrorOwnCycleOnly ==
  [][ \A s \in 1..Len(scripts) :
        (Failed(s) /\ loadingPromise[L] # Null
           /\ scripts[s].owner # loadingPromise[L]) =>
          /\ loadingPromise' = loadingPromise
          /\ windowCallback' = windowCallback
          /\ \A p \in 1..Len(promises) :
               p # scripts[s].owner => promises'[p] = promises[p] ]_vars

\* C33: when dispose returns, no script injected by the loader remains in
\* the document, and a getScript call made right after it returns absent.
C33_NoScriptAfterDispose ==
  [][ /\ lastOp' = "dispose" =>
           \A s \in 1..Len(scripts') : ~scripts'[s].attached
      /\ (lastOp = "dispose" /\ lastOp' = "getScript") =>
           ret' = Nothing ]_vars

\* C31: provided every injected script eventually calls the global
\* callback or fires its error event, every promise returned by load or
\* wait eventually settles, whatever load, wait and dispose calls are
\* interleaved.
C31_EveryPromiseSettles ==
  \A p \in 1..MaxScripts :
    (Len(promises) >= p /\ promises[p].state = "pending")
      ~> (Len(promises) >= p /\ promises[p].state # "pending")

\* C35: the hook returned by createContext returns the value of the
\* nearest enclosing provider when there is one, otherwise the default
\* value when one was given, and throws 'useContext must be used within
\* `<name>Provider`.' only when there is neither; the hooks of the API
\* context and of the map context never throw.
C35_HookResult ==
  lastOp = "useContextValue" =>
    LET inside == ctxIn.providers # << >>
        hasDefault == ctxIn.defaultValue # Undefined
    IN /\ inside =>
            ~ctxOut.threw /\ ctxOut.value = ctxIn.providers[Len(ctxIn.providers)]
       /\ (~inside /\ hasDefault) =>
            ~ctxOut.threw /\ ctxOut.value = ctxIn.defaultValue
       /\ (~inside /\ ~hasDefault) =>
            /\ ctxOut.threw
            /\ ctxOut.message =
                 <<"useContext must be used within ", Backtick,
                   ctxIn.name \o "Provider", Backtick, ".">>
       /\ ctxIn.name \in {"GoogleMapsAPI", "Map"} => ~ctxOut.threw

C35_Witness ==
  /\ lastOp = "useContextValue"
  /\ ctxIn.name = "GoogleMapsAPI"
  /\ ctxIn.providers = << >>
  /\ ~ctxOut.threw
  /\ ctxOut.value = [google |-> Null, isLoading |-> TRUE, error |-> Null]

\* C34: APIProvider renders its children only after the load has
\* succeeded: whenever children are rendered, the published context has
\* isLoading false, error null and google equal to the handle the load
\* resolved with, never null; no child is rendered while the load is
\* pending or has failed.
C34_ChildrenOnlyWhenLoaded ==
  view.shown = "children" =>
    /\ ~view.isLoading
    /\ view.error = Null
    /\ view.google # Null
    /\ query.status = "success"
    /\ Settlement(query.promise).state = "fulfilled"
    /\ view.google = Settlement(query.promise).handle

====
